---- MODULE Spec2Model ----
(***************************************************************************)
(* State-machine model of the `evict` crate: the LRU replacer              *)
(* (src/src/replacer/lru.rs), the LRU-K replacer                            *)
(* (src/src/replacer/lru_k.rs) and the sequence source                      *)
(* (src/src/util/unique_sequence.rs).                                       *)
(*                                                                         *)
(* One replacer instance is modelled at a time (`which`).  Every public    *)
(* method is one action, except LruKReplacer::evict under concurrency,     *)
(* which is two steps because it releases the read lock taken in peek()    *)
(* before it takes the write lock.  The sequence source is also modelled   *)
(* on its own (`which` = "seq"), with callers on several threads.          *)
(***************************************************************************)
EXTENDS Integers, Sequences, FiniteSets, TLC

\* ------------------------------------------------------------------ bounds
\* Frame ids are 1..NumFrames.
NumFrames == 2
\* Capacities 1..MaxCapacity are tried.
MaxCapacity == 3
\* The history depths k that are tried.
Ks == {1, 2}
\* The correlated reference periods that are tried (0: never correlated).
RefPeriods == {0, 1}
\* Tokens the LRU replacer's UniqueSequence may issue in one run.
MaxSeq == 4
\* Clock ticks the LRU-K replacer's timestamp generator may advance in one run.
MaxTicks == 4
\* Threads that may be inside LruKReplacer::evict, or inside
\* UniqueSequence::next, at the same time.
NumThreads == 2
\* Calls of UniqueSequence::next in one run of the sequence on its own.
MaxCalls == 4
\* Clock ticks in one run of the LRU-K replacer whose touches are traced.
MaxTracedTicks == 5
\* Frames each thread unpins in the run of concurrent unpin() calls.
UnpinsPerThread == 3
\* Calls made in all in the run that follows the lock alone.
MaxOps == 3

Frames == 1..NumFrames
Threads == 1..NumThreads
\* "no thread"
NoThread == 0
\* "no frame": Option::None of a FrameId.
NoFrame == 0

\* The wall clock is far from HlcTimestamp::default() (zero): the first
\* timestamp is more than any ref_period away from it.
MaxRefPeriod == CHOOSE p \in RefPeriods : \A q \in RefPeriods : q <= p
Epoch == MaxRefPeriod + 1
\* Between two timestamps the clock advances by 1..MaxStep, so both
\* correlated (<= ref_period) and uncorrelated (> ref_period) accesses occur.
MaxStep == MaxRefPeriod + 1

VARIABLES
    which,          \* "lru" | "lruk": the replacer under test; "seq": the
                    \* UniqueSequence on its own
    \* ---- LruReplacer::Inner (lru.rs 18-28)
    capacity,       \* Inner::capacity
    frames,         \* Inner::frames: set of [id, priority] items of the queue
    val,            \* Inner::seq: UniqueSequence::val
    \* ---- LruKReplacer::Inner (lru_k.rs 113-128)
    config,         \* Inner::config: [capacity, k, ref_period]
    size,           \* Inner::size
    framed_pages,   \* Inner::framed_pages: id -> [refs, last_ref, evictable]
    hlc,            \* Inner::seq: the last timestamp the generator issued
    \* ---- callers
    rw,             \* Inner's RwLock: [writer, readers], the threads holding it
    pc,             \* thread -> where it is in the call it is making
    call,           \* thread -> [op, id]: the call it is making
    results,        \* thread -> the results of the calls it has made
    pending,        \* thread -> victim found by peek() inside an evict() in progress
    fetched,        \* thread -> [busy, val, at]: inside next(), `val` is what
                    \* fetch_add returned; `at` calls had returned when it began
    history,        \* the next() calls that returned, in the order they
                    \* returned: [t, res, at]
    last,           \* the last call that returned: [op, id, res, known, ts, prev, again,
                    \* afterpin]
    \* ---- history of the calls, for the properties
    traced,         \* whether the run records `accesses`
    accesses,       \* LRU-K: id -> the timestamps of the uncorrelated touches of
                    \* the frame since it was inserted, oldest first
    pins,           \* id -> "free" | "pinned" (pin(id) returned Ok, no unpin(id)
                    \*       since)
    recency,        \* LRU: ids in the queue, in the order of their last successful push
    evictions,      \* id -> evict() calls that returned id since id was last inserted
    underflow       \* a `size -= 1` was executed with size = 0

vars == <<which, capacity, frames, val, config, size, framed_pages, hlc,
          rw, pc, call, results, pending, fetched, history, last, traced, accesses, pins, recency,
          evictions, underflow>>

lruVars == <<capacity, frames, val>>
lrukVars == <<config, size, framed_pages, hlc>>
seqVars == <<fetched, history>>
lockVars == <<rw, pc, call, results>>
histVars == <<traced, accesses>>

\* ------------------------------------------------------------------ helpers
Min(a, b) == IF a <= b THEN a ELSE b

\* The sequence s without the element x.
Without(s, x) == SelectSeq(s, LAMBDA e : e # x)

\* "the call before was not a peek()"
NoPeek == -1

\* A returned call: the method, its argument (evict, peek: the frame returned,
\* or NoFrame), the result, whether the frame was tracked when the call began,
\* the timestamp the call drew (0: none), for an evict(), what the
\* immediately preceding call returned if that was a peek(), for a pin()
\* or unpin(), whether the call before was the same call and returned Ok, and
\* for an unpin() of the LRU replacer, whether the call before was a pin() of
\* the same frame that found it in the queue.
Call(op, id, res, known, ts) ==
    [op |-> op, id |-> id, res |-> res, known |-> known, ts |-> ts,
     prev |-> IF op = "evict" /\ last.op = "peek" THEN last.id ELSE NoPeek,
     again |-> /\ op \in {"pin", "unpin"}
               /\ last.op = op /\ last.id = id /\ last.res = "Ok",
     afterpin |-> /\ which = "lru" /\ op = "unpin"
                  /\ last.op = "pin" /\ last.id = id /\ last.known]

\* ------------------------------------------------------------- RwLock
\* parking_lot::RwLock around Inner: one writer, or any number of readers.
Unlocked == [writer |-> NoThread, readers |-> {}]
\* A thread that is making no call.
NoCall == [op |-> "none", id |-> NoFrame]

\* RwLock::write returns once no thread holds the lock.
LockWrite(t) ==
    /\ rw.writer = NoThread /\ rw.readers = {}
    /\ rw' = [rw EXCEPT !.writer = t]

\* RwLock::read returns once no writer holds the lock; parking_lot makes a
\* reader wait also while a writer is waiting.
LockRead(t) ==
    /\ rw.writer = NoThread
    /\ \A u \in Threads : pc[u] # "write"
    /\ rw' = [rw EXCEPT !.readers = @ \cup {t}]

\* The guard of thread t is dropped.
Unlock(t) ==
    rw' = [writer |-> IF rw.writer = t THEN NoThread ELSE rw.writer,
           readers |-> rw.readers \ {t}]

\* ------------------------------------------------------ UniqueSequence
\* i64::MAX, as the largest integer TLC holds.
I64Max == 2147483647
I64Min == -I64Max - 1

\* UniqueSequence::next: fetch_add(1) wraps around; the value before the add
\* is returned unless it is i64::MAX.
\* A faulty FetchAdd: the incremented value is not stored.
FetchAddLosesUpdate(v) == v

FetchAdd(v) == IF v = I64Max THEN I64Min ELSE v + 1
NextIsNone(v) == v = I64Max

\* Option<i64>, the result of UniqueSequence::next.
Some(v) == [some |-> TRUE, val |-> v]
None == [some |-> FALSE, val |-> 0]

\* A thread outside next().
Idle == [busy |-> FALSE, val |-> 0, at |-> 0]

\* next() calls begun so far.
Begun == Len(history) + Cardinality({t \in Threads : fetched[t].busy})

\* UniqueSequence::next, first half: the atomic fetch_add(1, SeqCst).
SeqFetch(t) ==
    /\ which = "seq"
    /\ ~fetched[t].busy
    /\ Begun < MaxCalls
    /\ fetched' = [fetched EXCEPT
                     ![t] = [busy |-> TRUE, val |-> val, at |-> Len(history)]]
    /\ val' = FetchAdd(val)
    /\ UNCHANGED <<lockVars, histVars, which, capacity, frames, lrukVars, pending, history,
                   last, pins, recency, evictions, underflow>>

\* UniqueSequence::next, second half: the comparison with i64::MAX and the
\* return to the caller.
SeqReturn(t) ==
    /\ which = "seq"
    /\ fetched[t].busy
    /\ history' = Append(history,
                         [t |-> t, at |-> fetched[t].at,
                          res |-> IF NextIsNone(fetched[t].val)
                                  THEN None ELSE Some(fetched[t].val)])
    /\ fetched' = [fetched EXCEPT ![t] = Idle]
    /\ UNCHANGED <<lockVars, histVars, which, lruVars, lrukVars, pending, last, pins,
                   recency, evictions, underflow>>

\* ------------------------------------------------------------------ LRU
\* PriorityQueue::len / get.  An id is in the queue at most once.
LruLen == Cardinality(frames)
LruIds == {f.id : f \in frames}
LruGet(id) == {f \in frames : f.id = id}

\* PriorityQueue::peek / pop on a queue q: the item with the greatest
\* Reverse(priority), i.e. the smallest priority.
QueueTop(q) == {f \in q : \A g \in q : f.priority <= g.priority}
LruTop == QueueTop(frames)

\* EvictionPolicy::size and capacity of LruReplacer.
LruSize == LruLen
LruCapacity == capacity

\* A faulty QueuePush: an item already present keeps its old priority.
QueuePushKeepsPriority(id, priority) ==
    IF LruGet(id) # {} THEN frames
    ELSE frames \cup {[id |-> id, priority |-> priority]}

\* A faulty QueuePush: the priority is not wrapped in Reverse, so that the
\* newest item is the first to be popped.
QueuePushNotReversed(id, priority) ==
    (frames \ LruGet(id)) \cup {[id |-> id, priority |-> -priority]}

\* PriorityQueue::push: inserts the item, or updates its priority if present.
QueuePush(id, priority) ==
    (frames \ LruGet(id)) \cup {[id |-> id, priority |-> priority]}

\* A faulty LruFull: the last free slot is refused.
LruFullOneEarly == LruLen + 1 >= capacity

\* LruReplacer::push: "ensure that we are not beyond the capacity".
LruFull == LruLen >= capacity

\* The tokens a run may draw: MaxSeq, or as many as the queue can hold.
SeqLimit == IF capacity > MaxSeq THEN capacity ELSE MaxSeq

\* LruReplacer::push, called by `op` (touch or unpin) with the write guard.
LruPush(op, id) ==
    IF LruFull
    THEN /\ last' = Call(op, id, "FrameReplacerFull", id \in LruIds, 0)
         /\ UNCHANGED <<frames, val, recency, evictions>>
    ELSE /\ val < SeqLimit
         /\ val' = FetchAdd(val)
         /\ IF NextIsNone(val)
            THEN /\ last' = Call(op, id, "SequenceExhausted", id \in LruIds, 0)
                 /\ UNCHANGED <<frames, recency, evictions>>
            ELSE /\ frames' = QueuePush(id, val)
                 /\ recency' = Append(Without(recency, id), id)
                 /\ evictions' = IF id \in LruIds THEN evictions
                                 ELSE [evictions EXCEPT ![id] = 0]
                 /\ last' = Call(op, id, "Ok", id \in LruIds, 0)

LruTouch(id) ==
    /\ which = "lru"
    /\ LruPush("touch", id)
    /\ UNCHANGED <<lockVars, seqVars, histVars, which,
                   capacity, lrukVars, pending, pins, underflow>>

LruPin(id) ==
    /\ which = "lru"
    /\ frames' = frames \ LruGet(id)
    /\ recency' = Without(recency, id)
    /\ pins' = [pins EXCEPT ![id] = "pinned"]
    /\ last' = Call("pin", id, "Ok", id \in LruIds, 0)
    /\ UNCHANGED <<lockVars, seqVars, histVars, which,
                   capacity, val, lrukVars, pending, evictions, underflow>>

\* LruReplacer::unpin, once `self.inner.write()` has returned.
LruUnpinBody(id) ==
    /\ IF LruGet(id) = {}
       THEN LruPush("unpin", id)
       ELSE /\ last' = Call("unpin", id, "Ok", TRUE, 0)
            /\ UNCHANGED <<frames, val, recency, evictions>>
    /\ pins' = [pins EXCEPT ![id] = "free"]

LruUnpin(id) ==
    /\ which = "lru"
    /\ LruUnpinBody(id)
    /\ UNCHANGED <<lockVars, seqVars, histVars, which,
                   capacity, lrukVars, pending, underflow>>

LruEvict ==
    /\ which = "lru"
    /\ IF frames = {}
       THEN /\ last' = Call("evict", NoFrame, "None", FALSE, 0)
            /\ UNCHANGED <<frames, recency, evictions>>
       ELSE \E f \in LruTop :
              /\ frames' = frames \ {f}
              /\ recency' = Without(recency, f.id)
              /\ evictions' = [evictions EXCEPT ![f.id] = @ + 1]
              /\ last' = Call("evict", f.id, "Some", TRUE, 0)
    /\ UNCHANGED <<lockVars, seqVars, histVars, which,
                   capacity, val, lrukVars, pending, pins, underflow>>

\* A faulty LruPeek: the item peeked at is popped.
LruPeekPops ==
    /\ which = "lru"
    /\ IF frames = {}
       THEN /\ last' = Call("peek", NoFrame, "None", FALSE, 0)
            /\ UNCHANGED <<frames, recency>>
       ELSE \E f \in LruTop :
              /\ frames' = frames \ {f}
              /\ recency' = Without(recency, f.id)
              /\ last' = Call("peek", f.id, "Some", TRUE, 0)
    /\ UNCHANGED <<lockVars, seqVars, histVars, which,
                   capacity, val, lrukVars, pending, pins, evictions,
                   underflow>>

LruPeek ==
    /\ which = "lru"
    /\ IF frames = {}
       THEN last' = Call("peek", NoFrame, "None", FALSE, 0)
       ELSE \E f \in LruTop : last' = Call("peek", f.id, "Some", TRUE, 0)
    /\ UNCHANGED <<lockVars, seqVars, histVars, which,
                   lruVars, lrukVars, pending, pins, recency, evictions,
                   underflow>>

LruRemove(id) ==
    /\ which = "lru"
    /\ frames' = frames \ LruGet(id)
    /\ recency' = Without(recency, id)
    /\ last' = Call("remove", id,
                    IF LruGet(id) = {} THEN "PinnedFrameRemoval" ELSE "Ok",
                    id \in LruIds, 0)
    /\ UNCHANGED <<lockVars, seqVars, histVars, which,
                   capacity, val, lrukVars, pending, pins, evictions,
                   underflow>>

\* ------------------------------------------------------------------ LRU-K
\* usize::MAX, as the largest integer TLC holds.
UsizeMax == 2147483647

\* HlcGenerator::next_timestamp: strictly greater than every timestamp issued
\* before; the wall clock advances by at most MaxStep between two calls.  Runs
\* stay inside the generator's range, so the call returns Some(timestamp).
LastTick == Epoch + (IF traced THEN MaxTracedTicks ELSE MaxTicks)
NextTimestamps == (hlc + 1)..Min(hlc + MaxStep, LastTick)

\* HashMap::contains_key, and the tracked frames.
Tracked == DOMAIN framed_pages
Evictable == {id \in Tracked : framed_pages[id].evictable}

\* EvictionPolicy::size and capacity of LruKReplacer.
LruKSize == size
LruKCapacity == config.capacity

\* LruKConfig::default()
LruKConfigDefault == [capacity |-> 4096, k |-> 2, ref_period |-> 0]

\* PageInfo::new(k): HlcTimestamp::default() is zero.
PageInfoNew == [refs |-> <<>>, last_ref |-> 0, evictable |-> TRUE]

\* VecDeque::with_capacity(k).capacity()
RefsCapacity(k) == k

\* A faulty PageInfoTouch: correlated accesses are recorded as well.
PageInfoTouchAlwaysRecords(page, timestamp, ref_period, k) ==
    [refs |-> IF Len(page.refs) = RefsCapacity(k)
              THEN Append(Tail(page.refs), timestamp)
              ELSE Append(page.refs, timestamp),
     last_ref |-> timestamp,
     evictable |-> page.evictable]

\* PageInfo::touch
PageInfoTouch(page, timestamp, ref_period, k) ==
    LET n == Len(page.refs)
        shift == IF n = 0 THEN 0 ELSE timestamp - page.refs[n]
        shifted == IF shift > 0 THEN [i \in 1..n |-> page.refs[i] + shift]
                   ELSE page.refs
        popped == IF n = RefsCapacity(k) THEN Tail(shifted) ELSE shifted
    IN  [refs |-> IF ref_period = 0 \/ timestamp - page.last_ref > ref_period
                  THEN Append(popped, timestamp)
                  ELSE page.refs,
         last_ref |-> timestamp,
         evictable |-> page.evictable]

\* A faulty MapRemove: the entry stays in the map.
MapRemoveKeepsEntry(id) == framed_pages

\* HashMap::remove
MapRemove(id) == [f \in Tracked \ {id} |-> framed_pages[f]]

\* HashMap::entry(id).or_insert_with(PageInfo::new), then the update `page`.
MapPut(id, page) ==
    [f \in Tracked \cup {id} |-> IF f = id THEN page ELSE framed_pages[f]]

\* A faulty Candidates: the ref_period guard lasts one tick too long.
CandidatesGuardOffByOne(timestamp) ==
    {id \in Tracked :
        /\ framed_pages[id].evictable
        /\ ~(config.ref_period > 0
             /\ timestamp - framed_pages[id].last_ref <= config.ref_period + 1)}

\* A faulty Candidates: the ref_period guard ends one tick too early.
CandidatesGuardStrict(timestamp) ==
    {id \in Tracked :
        /\ framed_pages[id].evictable
        /\ ~(config.ref_period > 0
             /\ timestamp - framed_pages[id].last_ref < config.ref_period)}

\* peek(): the frames that pass the two `continue` guards at `timestamp`.
Candidates(timestamp) ==
    {id \in Tracked :
        /\ framed_pages[id].evictable
        /\ ~(config.ref_period > 0
             /\ timestamp - framed_pages[id].last_ref <= config.ref_period)}

\* A faulty KDist: a short history gets no "infinite" distance.
KDistWithoutInfinity(id, timestamp) ==
    LET refs == framed_pages[id].refs
    IN  timestamp - (IF refs = <<>> THEN 0 ELSE refs[Len(refs)])

\* peek(): the backward-k distance of a frame, as computed.
KDist(id, timestamp) ==
    LET refs == framed_pages[id].refs
        last_uncorrelated_ref == IF refs = <<>> THEN 0 ELSE refs[Len(refs)]
    IN  IF Len(refs) < config.k
        THEN I64Max - last_uncorrelated_ref
        ELSE timestamp - last_uncorrelated_ref

\* A faulty Victims: the frame of the smallest distance is kept.
VictimsSmallestDistance(timestamp) ==
    LET best == {id \in Candidates(timestamp) :
                    /\ KDist(id, timestamp) >= 0
                    /\ \A o \in Candidates(timestamp) :
                          KDist(o, timestamp) >= KDist(id, timestamp)}
    IN  IF best = {} THEN {NoFrame} ELSE best

\* peek(): the scan keeps the last frame whose distance is >= the maximum so
\* far (which starts at 0).  The map's iteration order is unspecified, so any
\* frame of maximal distance may be the result.
Victims(timestamp) ==
    LET best == {id \in Candidates(timestamp) :
                    /\ KDist(id, timestamp) >= 0
                    /\ \A o \in Candidates(timestamp) :
                          KDist(o, timestamp) <= KDist(id, timestamp)}
    IN  IF best = {} THEN {NoFrame} ELSE best

\* A faulty SizeDec: the counter is not decremented.
SizeDecForgotten(op, id, ts) ==
    /\ size' = size
    /\ last' = Call(op, id, IF op = "evict" THEN "Some" ELSE "Ok", TRUE, ts)
    /\ UNCHANGED underflow

\* `inner.size -= 1`: with size = 0 the build either panics (overflow checks:
\* the call never returns, size stays) or wraps around to usize::MAX.
SizeDec(op, id, ts) ==
    IF size > 0
    THEN /\ size' = size - 1
         /\ last' = Call(op, id, IF op = "evict" THEN "Some" ELSE "Ok", TRUE, ts)
         /\ UNCHANGED underflow
    ELSE /\ underflow' = TRUE
         /\ \/ size' = size /\ last' = Call(op, id, "panic", TRUE, ts)
            \/ /\ size' = UsizeMax
               /\ last' = Call(op, id, IF op = "evict" THEN "Some" ELSE "Ok",
                               TRUE, ts)

\* `inner.size += 1`
SizeInc(op, id, ts) ==
    IF size < UsizeMax
    THEN /\ size' = size + 1
         /\ last' = Call(op, id, "Ok", op = "unpin", ts)
    ELSE \/ size' = size /\ last' = Call(op, id, "panic", op = "unpin", ts)
         \/ size' = 0 /\ last' = Call(op, id, "Ok", op = "unpin", ts)

\* A thread that is not inside evict() makes the call.
SomeThreadIdle == \E t \in Threads : pending[t] = NoFrame

\* The uncorrelated touches on record after a touch of `id` at `timestamp`
\* that was not rejected (PageInfo::touch decides what is uncorrelated).
Accessed(id, timestamp) ==
    IF ~traced THEN accesses
    ELSE IF id \notin Tracked
         THEN [accesses EXCEPT ![id] = <<timestamp>>]
         ELSE IF \/ config.ref_period = 0
                 \/ timestamp - framed_pages[id].last_ref > config.ref_period
              THEN [accesses EXCEPT ![id] = Append(@, timestamp)]
              ELSE accesses

\* The uncorrelated touches on record of the frames in the map `pages`: a
\* frame's record goes with its PageInfo.
Remembered(pages) ==
    [f \in Frames |-> IF f \in DOMAIN pages THEN accesses[f] ELSE <<>>]

\* A faulty LruKFull: one frame more than the capacity is admitted.
LruKFullOneLate(id) == size > config.capacity /\ id \notin Tracked

\* touch(): "the replacer is full, cannot add new page".
LruKFull(id) == size >= config.capacity /\ id \notin Tracked

LruKTouch(id) ==
    /\ which = "lruk"
    /\ SomeThreadIdle
    /\ IF LruKFull(id)
       THEN /\ last' = Call("touch", id, "FrameReplacerFull", FALSE, 0)
            /\ UNCHANGED <<size, framed_pages, hlc, evictions, accesses>>
       ELSE \E timestamp \in NextTimestamps :
              /\ hlc' = timestamp
              /\ accesses' = Accessed(id, timestamp)
              /\ IF id \notin Tracked
                 THEN /\ SizeInc("touch", id, timestamp)
                      /\ evictions' = [evictions EXCEPT ![id] = 0]
                 ELSE /\ last' = Call("touch", id, "Ok", TRUE, timestamp)
                      /\ UNCHANGED <<size, evictions>>
              /\ framed_pages' =
                    MapPut(id, PageInfoTouch(IF id \in Tracked
                                             THEN framed_pages[id]
                                             ELSE PageInfoNew,
                                             timestamp, config.ref_period,
                                             config.k))
    /\ UNCHANGED <<lockVars, seqVars, traced, which, lruVars, config, pending, pins, recency,
                   underflow>>

\* A faulty LruKPin: the size is lowered also when the frame is pinned already.
LruKPinAlwaysCounts(id) ==
    /\ which = "lruk"
    /\ SomeThreadIdle
    /\ IF id \notin Tracked
       THEN /\ last' = Call("pin", id, "InvalidFrameId", FALSE, 0)
            /\ UNCHANGED <<size, framed_pages, pins, underflow>>
       ELSE /\ pins' = [pins EXCEPT ![id] = "pinned"]
            /\ framed_pages' = [framed_pages EXCEPT ![id].evictable = FALSE]
            /\ SizeDec("pin", id, 0)
    /\ UNCHANGED <<lockVars, seqVars, histVars, which,
                   lruVars, config, hlc, pending, recency, evictions>>

LruKPin(id) ==
    /\ which = "lruk"
    /\ SomeThreadIdle
    /\ IF id \notin Tracked
       THEN /\ last' = Call("pin", id, "InvalidFrameId", FALSE, 0)
            /\ UNCHANGED <<size, framed_pages, pins, underflow>>
       ELSE /\ pins' = [pins EXCEPT ![id] = "pinned"]
            /\ IF ~framed_pages[id].evictable
               THEN /\ last' = Call("pin", id, "Ok", TRUE, 0)
                    /\ UNCHANGED <<size, framed_pages, underflow>>
               ELSE /\ framed_pages' =
                         [framed_pages EXCEPT ![id].evictable = FALSE]
                    /\ SizeDec("pin", id, 0)
    /\ UNCHANGED <<lockVars, seqVars, histVars, which,
                   lruVars, config, hlc, pending, recency, evictions>>

LruKUnpin(id) ==
    /\ which = "lruk"
    /\ SomeThreadIdle
    /\ IF id \notin Tracked
       THEN /\ last' = Call("unpin", id, "InvalidFrameId", FALSE, 0)
            /\ UNCHANGED <<size, framed_pages>>
       ELSE IF framed_pages[id].evictable
            THEN /\ last' = Call("unpin", id, "Ok", TRUE, 0)
                 /\ UNCHANGED <<size, framed_pages>>
            ELSE /\ framed_pages' =
                      [framed_pages EXCEPT ![id].evictable = TRUE]
                 /\ SizeInc("unpin", id, 0)
    /\ pins' = [pins EXCEPT ![id] = "free"]
    /\ UNCHANGED <<lockVars, seqVars, histVars, which,
                   lruVars, config, hlc, pending, recency, evictions,
                   underflow>>

LruKRemove(id) ==
    /\ which = "lruk"
    /\ SomeThreadIdle
    /\ IF id \notin Tracked
       THEN /\ last' = Call("remove", id, "Ok", FALSE, 0)
            /\ UNCHANGED <<size, framed_pages, underflow>>
       ELSE IF ~framed_pages[id].evictable
            THEN /\ last' = Call("remove", id, "PinnedFrameRemoval", TRUE, 0)
                 /\ UNCHANGED <<size, framed_pages, underflow>>
            ELSE /\ framed_pages' = MapRemove(id)
                 /\ SizeDec("remove", id, 0)
    /\ accesses' = Remembered(framed_pages')
    /\ UNCHANGED <<lockVars, seqVars, traced, which, lruVars, config, hlc, pending, pins,
                   recency, evictions>>

LruKPeek ==
    /\ which = "lruk"
    /\ SomeThreadIdle
    /\ \E timestamp \in NextTimestamps :
         /\ hlc' = timestamp
         /\ \E v \in Victims(timestamp) :
              last' = Call("peek", v, IF v = NoFrame THEN "None" ELSE "Some",
                           v # NoFrame, timestamp)
    /\ UNCHANGED <<lockVars, seqVars, histVars, which,
                   lruVars, config, size, framed_pages, pending, pins,
                   recency, evictions, underflow>>

\* evict() by a caller no other call overlaps: peek(), then the removal.
LruKEvict ==
    /\ which = "lruk"
    /\ \A t \in Threads : pending[t] = NoFrame
    /\ \E timestamp \in NextTimestamps :
         /\ hlc' = timestamp
         /\ \E v \in Victims(timestamp) :
              IF v = NoFrame
              THEN /\ last' = Call("evict", NoFrame, "None", FALSE, timestamp)
                   /\ UNCHANGED <<size, framed_pages, evictions, underflow>>
              ELSE /\ framed_pages' = MapRemove(v)
                   /\ SizeDec("evict", v, timestamp)
                   /\ evictions' = [evictions EXCEPT ![v] = @ + 1]
    /\ accesses' = Remembered(framed_pages')
    /\ UNCHANGED <<lockVars, seqVars, traced, which, lruVars, config, pending, pins, recency>>

\* evict(), first half: peek() under the read lock, which is then released.
LruKEvictPeek(t) ==
    /\ which = "lruk"
    /\ pending[t] = NoFrame
    /\ \E timestamp \in NextTimestamps :
         /\ hlc' = timestamp
         /\ \E v \in Victims(timestamp) :
              IF v = NoFrame
              THEN /\ last' = Call("evict", NoFrame, "None", FALSE, timestamp)
                   /\ UNCHANGED pending
              ELSE /\ pending' = [pending EXCEPT ![t] = v]
                   /\ UNCHANGED last
    /\ UNCHANGED <<lockVars, seqVars, histVars, which,
                   lruVars, config, size, framed_pages, pins, recency,
                   evictions, underflow>>

\* evict(), second half: the closure of inspect() under the write lock.
LruKEvictWrite(t) ==
    /\ which = "lruk"
    /\ pending[t] # NoFrame
    /\ framed_pages' = MapRemove(pending[t])
    /\ SizeDec("evict", pending[t], 0)
    /\ evictions' = [evictions EXCEPT ![pending[t]] = @ + 1]
    /\ pending' = [pending EXCEPT ![t] = NoFrame]
    /\ accesses' = Remembered(framed_pages')
    /\ UNCHANGED <<lockVars, seqVars, traced, which, lruVars, config, hlc, pins, recency>>

\* ---------------------------------------------------------- specifications
\* An LruKReplacer whose capacity is NumFrames or more is never full, so
\* the larger capacities all behave as capacity NumFrames does.  The
\* capacities tried are that one and the smallest, at which every frame but
\* one is rejected.
LruKCapacities == {1, Min(MaxCapacity, NumFrames)}

\* LruReplacer::new(capacity) or LruKReplacer::with_config(config).
Init ==
    /\ \/ /\ which = "lru"
          /\ capacity \in 1..MaxCapacity
          /\ config = LruKConfigDefault
       \/ /\ which = "lruk"
          /\ capacity = 0
          /\ config \in [capacity : LruKCapacities, k : Ks,
                         ref_period : RefPeriods]
    /\ frames = {}
    /\ val = 0
    /\ size = 0
    /\ framed_pages = <<>>
    /\ hlc = Epoch
    /\ pending = [t \in Threads |-> NoFrame]
    /\ rw = Unlocked
    /\ pc = [t \in Threads |-> "idle"]
    /\ call = [t \in Threads |-> NoCall]
    /\ results = [t \in Threads |-> <<>>]
    /\ fetched = [t \in Threads |-> Idle]
    /\ history = <<>>
    /\ traced = FALSE
    /\ accesses = [id \in Frames |-> <<>>]
    /\ last = [op |-> "new", id |-> NoFrame, res |-> "Ok", known |-> FALSE,
               ts |-> 0, prev |-> NoPeek, again |-> FALSE,
               afterpin |-> FALSE]
    /\ pins = [id \in Frames |-> "free"]
    /\ recency = <<>>
    /\ evictions = [id \in Frames |-> 0]
    /\ underflow = FALSE

\* Calls that do not overlap.
Next ==
    \/ \E id \in Frames : LruTouch(id)
    \/ \E id \in Frames : LruPin(id)
    \/ \E id \in Frames : LruUnpin(id)
    \/ \E id \in Frames : LruRemove(id)
    \/ LruEvict
    \/ LruPeek
    \/ \E id \in Frames : LruKTouch(id)
    \/ \E id \in Frames : LruKPin(id)
    \/ \E id \in Frames : LruKUnpin(id)
    \/ \E id \in Frames : LruKRemove(id)
    \/ LruKEvict
    \/ LruKPeek

Spec == Init /\ [][Next]_vars

\* Calls from several threads: every call holds the lock for its whole
\* duration, except LruKReplacer::evict.
NextConc ==
    \/ \E id \in Frames : LruTouch(id)
    \/ \E id \in Frames : LruPin(id)
    \/ \E id \in Frames : LruUnpin(id)
    \/ \E id \in Frames : LruRemove(id)
    \/ LruEvict
    \/ LruPeek
    \/ \E id \in Frames : LruKTouch(id)
    \/ \E id \in Frames : LruKPin(id)
    \/ \E id \in Frames : LruKUnpin(id)
    \/ \E id \in Frames : LruKRemove(id)
    \/ LruKPeek
    \/ \E t \in Threads : LruKEvictPeek(t)
    \/ \E t \in Threads : LruKEvictWrite(t)

SpecConc == Init /\ [][NextConc]_vars

\* The LRU-K replacer with its touches traced; calls that do not overlap.
InitHist ==
    /\ which = "lruk"
    /\ capacity = 0
    /\ config \in [capacity : LruKCapacities, k : Ks, ref_period : RefPeriods]
    /\ frames = {}
    /\ val = 0
    /\ size = 0
    /\ framed_pages = <<>>
    /\ hlc = Epoch
    /\ pending = [t \in Threads |-> NoFrame]
    /\ rw = Unlocked
    /\ pc = [t \in Threads |-> "idle"]
    /\ call = [t \in Threads |-> NoCall]
    /\ results = [t \in Threads |-> <<>>]
    /\ fetched = [t \in Threads |-> Idle]
    /\ history = <<>>
    /\ traced = TRUE
    /\ accesses = [id \in Frames |-> <<>>]
    /\ last = [op |-> "new", id |-> NoFrame, res |-> "Ok", known |-> FALSE,
               ts |-> 0, prev |-> NoPeek, again |-> FALSE,
               afterpin |-> FALSE]
    /\ pins = [id \in Frames |-> "free"]
    /\ recency = <<>>
    /\ evictions = [id \in Frames |-> 0]
    /\ underflow = FALSE

NextHist ==
    \/ \E id \in Frames : LruKTouch(id)
    \/ \E id \in Frames : LruKPin(id)
    \/ \E id \in Frames : LruKUnpin(id)
    \/ \E id \in Frames : LruKRemove(id)
    \/ LruKEvict
    \/ LruKPeek

SpecHist == InitHist /\ [][NextHist]_vars

\* Every thread unpins UnpinsPerThread frames of its own on one shared
\* LruReplacer that has room for all of them (tests/lru.rs, multi_threaded).
UnpinIds == 1..(NumThreads * UnpinsPerThread)
\* The frame thread t unpins after it has made n calls.
UnpinId(t, n) == (t - 1) * UnpinsPerThread + n + 1

\* LruReplacer::unpin is called: `self.inner.write()` is waited for.
UnpinBegin(t) ==
    /\ which = "lru"
    /\ pc[t] = "idle"
    /\ Len(results[t]) < UnpinsPerThread
    /\ call' = [call EXCEPT
                  ![t] = [op |-> "unpin", id |-> UnpinId(t, Len(results[t]))]]
    /\ pc' = [pc EXCEPT ![t] = "write"]
    /\ UNCHANGED <<rw, results, seqVars, histVars, which, lruVars, lrukVars,
                   pending, last, pins, recency, evictions, underflow>>

\* `self.inner.write()` returns the write guard.
UnpinLock(t) ==
    /\ which = "lru"
    /\ pc[t] = "write"
    /\ LockWrite(t)
    /\ pc' = [pc EXCEPT ![t] = "body"]
    /\ UNCHANGED <<call, results, seqVars, histVars, which, lruVars, lrukVars,
                   pending, last, pins, recency, evictions, underflow>>

\* The rest of LruReplacer::unpin under the write guard, which is dropped
\* when the call returns.
UnpinReturn(t) ==
    /\ which = "lru"
    /\ pc[t] = "body"
    /\ LruUnpinBody(call[t].id)
    /\ Unlock(t)
    /\ pc' = [pc EXCEPT ![t] = "idle"]
    /\ call' = [call EXCEPT ![t] = NoCall]
    /\ results' = [results EXCEPT ![t] = Append(@, last'.res)]
    /\ UNCHANGED <<seqVars, histVars, which, capacity, lrukVars, pending,
                   underflow>>

InitUnpin ==
    /\ which = "lru"
    /\ capacity = NumThreads * UnpinsPerThread
    /\ config = LruKConfigDefault
    /\ frames = {}
    /\ val = 0
    /\ size = 0
    /\ framed_pages = <<>>
    /\ hlc = Epoch
    /\ pending = [t \in Threads |-> NoFrame]
    /\ rw = Unlocked
    /\ pc = [t \in Threads |-> "idle"]
    /\ call = [t \in Threads |-> NoCall]
    /\ results = [t \in Threads |-> <<>>]
    /\ fetched = [t \in Threads |-> Idle]
    /\ history = <<>>
    /\ traced = FALSE
    /\ accesses = [id \in Frames |-> <<>>]
    /\ last = [op |-> "new", id |-> NoFrame, res |-> "Ok", known |-> FALSE,
               ts |-> 0, prev |-> NoPeek, again |-> FALSE,
               afterpin |-> FALSE]
    /\ pins = [id \in UnpinIds |-> "free"]
    /\ recency = <<>>
    /\ evictions = [id \in UnpinIds |-> 0]
    /\ underflow = FALSE

NextUnpin ==
    \/ \E t \in Threads : UnpinBegin(t)
    \/ \E t \in Threads : UnpinLock(t)
    \/ \E t \in Threads : UnpinReturn(t)

SpecUnpin == InitUnpin /\ [][NextUnpin]_vars

\* The lock alone: the methods of one shared replacer called from several
\* threads, each method as the sequence of lock operations it performs.  What
\* a method does to the frames has no part in it, except that evict() of
\* LruKReplacer goes on to the write lock only if its peek() found a victim:
\* both outcomes are possible at every call.
Methods == {"touch", "pin", "unpin", "evict", "peek", "remove", "size"}

\* The methods that begin with `self.inner.read()`: peek and size of both
\* replacers, and evict of LruKReplacer, which begins with self.peek().
ReadsFirst(op) == op \in {"peek", "size"} \/ (op = "evict" /\ which = "lruk")

\* The calls made so far: those that returned and those under way.
Finished == UNION {{<<t, n>> : n \in 1..Len(results[t])} : t \in Threads}
Called == Cardinality(Finished) + Cardinality({t \in Threads : pc[t] # "idle"})

\* A method is called: its first lock is waited for.
CallBegin(t, op) ==
    /\ pc[t] = "idle"
    /\ Called < MaxOps
    /\ call' = [call EXCEPT ![t] = [op |-> op, id |-> NoFrame]]
    /\ pc' = [pc EXCEPT ![t] = IF ReadsFirst(op) THEN "read" ELSE "write"]
    /\ UNCHANGED <<rw, results, seqVars, histVars, which, lruVars, lrukVars,
                   pending, last, pins, recency, evictions, underflow>>

\* `self.inner.read()` returns the read guard.
ReadLocked(t) ==
    /\ pc[t] = "read"
    /\ LockRead(t)
    /\ pc' = [pc EXCEPT ![t] = "reading"]
    /\ UNCHANGED <<call, results, seqVars, histVars, which, lruVars, lrukVars,
                   pending, last, pins, recency, evictions, underflow>>

\* `self.inner.write()` returns the write guard.
WriteLocked(t) ==
    /\ pc[t] = "write"
    /\ LockWrite(t)
    /\ pc' = [pc EXCEPT ![t] = "writing"]
    /\ UNCHANGED <<call, results, seqVars, histVars, which, lruVars, lrukVars,
                   pending, last, pins, recency, evictions, underflow>>

\* A faulty ReadDone: evict() of LruKReplacer still holds the read guard of
\* its peek() when it asks for the write lock.
ReadDoneKeepsGuard(t) ==
    /\ pc[t] = "reading"
    /\ \/ /\ call[t].op = "evict"
          /\ pc' = [pc EXCEPT ![t] = "write"]
          /\ UNCHANGED <<rw, call, results>>
       \/ /\ Unlock(t)
          /\ pc' = [pc EXCEPT ![t] = "idle"]
          /\ results' = [results EXCEPT ![t] = Append(@, "Ok")]
          /\ call' = [call EXCEPT ![t] = NoCall]
    /\ UNCHANGED <<seqVars, histVars, which, lruVars, lrukVars,
                   pending, last, pins, recency, evictions, underflow>>

\* The method returns from under the read guard, which is dropped.  In
\* LruKReplacer::evict it is peek() that returns: with a victim, evict() goes
\* on to `self.inner.write()`; with none, evict() returns.
ReadDone(t) ==
    /\ pc[t] = "reading"
    /\ Unlock(t)
    /\ \/ /\ call[t].op = "evict"
          /\ pc' = [pc EXCEPT ![t] = "write"]
          /\ UNCHANGED <<call, results>>
       \/ /\ pc' = [pc EXCEPT ![t] = "idle"]
          /\ results' = [results EXCEPT ![t] = Append(@, "Ok")]
          /\ call' = [call EXCEPT ![t] = NoCall]
    /\ UNCHANGED <<seqVars, histVars, which, lruVars, lrukVars,
                   pending, last, pins, recency, evictions, underflow>>

\* The method returns from under the write guard, which is dropped.
WriteDone(t) ==
    /\ pc[t] = "writing"
    /\ Unlock(t)
    /\ pc' = [pc EXCEPT ![t] = "idle"]
    /\ results' = [results EXCEPT ![t] = Append(@, "Ok")]
    /\ call' = [call EXCEPT ![t] = NoCall]
    /\ UNCHANGED <<seqVars, histVars, which, lruVars, lrukVars,
                   pending, last, pins, recency, evictions, underflow>>

InitLocks ==
    /\ \/ /\ which = "lru"
          /\ capacity = 1
       \/ /\ which = "lruk"
          /\ capacity = 0
    /\ config = LruKConfigDefault
    /\ frames = {}
    /\ val = 0
    /\ size = 0
    /\ framed_pages = <<>>
    /\ hlc = Epoch
    /\ pending = [t \in Threads |-> NoFrame]
    /\ rw = Unlocked
    /\ pc = [t \in Threads |-> "idle"]
    /\ call = [t \in Threads |-> NoCall]
    /\ results = [t \in Threads |-> <<>>]
    /\ fetched = [t \in Threads |-> Idle]
    /\ history = <<>>
    /\ traced = FALSE
    /\ accesses = [id \in Frames |-> <<>>]
    /\ last = [op |-> "new", id |-> NoFrame, res |-> "Ok", known |-> FALSE,
               ts |-> 0, prev |-> NoPeek, again |-> FALSE,
               afterpin |-> FALSE]
    /\ pins = [id \in Frames |-> "free"]
    /\ recency = <<>>
    /\ evictions = [id \in Frames |-> 0]
    /\ underflow = FALSE

\* What a thread does once it has called a method.
ThreadStep(t) ==
    \/ ReadLocked(t)
    \/ WriteLocked(t)
    \/ ReadDone(t)
    \/ WriteDone(t)

NextLocks ==
    \/ \E t \in Threads : \E op \in Methods : CallBegin(t, op)
    \/ \E t \in Threads : ThreadStep(t)

\* Fair scheduling: a thread that can take a step all the time takes one.
SpecLocks ==
    InitLocks /\ [][NextLocks]_vars /\ \A t \in Threads : WF_vars(ThreadStep(t))

\* The UniqueSequence on its own, called from several threads.
\* UniqueSequence::new starts the counter at 0; a sequence in long use is one
\* whose counter is a few calls short of i64::MAX.
SeqStarts == {0, I64Max - (MaxCalls - 2)}

InitSeq ==
    /\ which = "seq"
    /\ val \in SeqStarts
    /\ capacity = 0
    /\ config = LruKConfigDefault
    /\ frames = {}
    /\ size = 0
    /\ framed_pages = <<>>
    /\ hlc = Epoch
    /\ pending = [t \in Threads |-> NoFrame]
    /\ rw = Unlocked
    /\ pc = [t \in Threads |-> "idle"]
    /\ call = [t \in Threads |-> NoCall]
    /\ results = [t \in Threads |-> <<>>]
    /\ fetched = [t \in Threads |-> Idle]
    /\ history = <<>>
    /\ traced = FALSE
    /\ accesses = [id \in Frames |-> <<>>]
    /\ last = [op |-> "new", id |-> NoFrame, res |-> "Ok", known |-> FALSE,
               ts |-> 0, prev |-> NoPeek, again |-> FALSE,
               afterpin |-> FALSE]
    /\ pins = [id \in Frames |-> "free"]
    /\ recency = <<>>
    /\ evictions = [id \in Frames |-> 0]
    /\ underflow = FALSE

NextSeq ==
    \/ \E t \in Threads : SeqFetch(t)
    \/ \E t \in Threads : SeqReturn(t)

SpecSeq == InitSeq /\ [][NextSeq]_vars

\* ------------------------------------------------------------------ claims
\* What evict() or peek() just returned, if it returned a frame.
Returned(id) == last.op \in {"evict", "peek"} /\ last.res = "Some" /\ last.id = id

\* C1 (as stated): once pin(id) has returned Ok, no evict() or peek() returns
\* id until unpin(id) is called, whatever touch calls happen in between, for
\* both replacers.
C1_PinnedNeverReturned ==
    \A id \in Frames : Returned(id) => pins[id] = "free"

\* C2: after any sequence of non-overlapping calls, size() is the number of
\* tracked evictable frames, each counted once (LRU-K: map entries with
\* evictable = true; LRU: the ids of the queue's items).
C2_SizeCountsEvictable ==
    /\ which = "lruk" => LruKSize = Cardinality(Evictable)
    /\ which = "lru" => LruSize = Cardinality(LruIds)

\* C2 witness: an LRU-K replacer with one pinned and one evictable frame,
\* after a pin and a later call.
C2_Witness ==
    /\ which = "lruk"
    /\ Cardinality(Tracked) = 2 /\ Cardinality(Evictable) = 1
    /\ last.op \in {"touch", "remove", "evict", "unpin"}

\* C3 (as stated): in every reachable state size() <= capacity(), for both
\* replacers.
C3_SizeWithinCapacity ==
    /\ which = "lruk" => LruKSize <= LruKCapacity
    /\ which = "lru" => LruSize <= LruCapacity

\* C4 (as stated): under any interleaving of concurrent evict() calls, a
\* frame that was inserted once is returned by at most one evict() call.
C4_EvictedAtMostOnce ==
    \A id \in Frames : evictions[id] <= 1

\* C5 (as stated): for a shared LruKReplacer, whenever no call is in progress
\* the size counter equals the number of tracked frames with evictable = true,
\* and the counter is never decremented below zero.
C5_SizeCountsEvictableWhenIdle ==
    (which = "lruk" /\ \A t \in Threads : pending[t] = NoFrame) =>
        /\ size = Cardinality(Evictable)
        /\ ~underflow

\* The ids that successive evict() calls would return from the queue q.
RECURSIVE EvictionOrder(_)
EvictionOrder(q) ==
    IF q = {} THEN <<>>
    ELSE LET f == CHOOSE f \in QueueTop(q) : TRUE
         IN  <<f.id>> \o EvictionOrder(q \ {f})

\* C6: LruReplacer: evict() and peek() return the frame whose most recent
\* successful touch or insertion is the oldest, and successive evict() calls
\* return the frames in the order of their last access; touch(x) on a frame
\* already present moves x behind every other frame.
C6_LruEvictsInAccessOrder ==
    which = "lru" =>
        /\ EvictionOrder(frames) = recency
        /\ (last.op = "peek" /\ last.res = "Some") => last.id = Head(recency)
        /\ (last.op = "peek" /\ last.res = "None") => recency = <<>>

\* C6 witness: touch(x) returned Ok for a frame x that was already in the
\* queue together with another frame, and x is now the last to be evicted.
C6_Witness ==
    /\ which = "lru"
    /\ last.op = "touch" /\ last.res = "Ok" /\ last.known
    /\ Len(recency) >= 2
    /\ recency[Len(recency)] = last.id

\* An evict() that immediately follows a peek() returned what the peek() did.
EvictAgreesWithPeek ==
    (last'.op = "evict" /\ last'.prev # NoPeek) => last'.id = last'.prev

\* C7 (as stated): with no touch, pin, unpin or remove between them, peek()
\* followed immediately by evict() select the same result, for both
\* replacers, ref_period > 0 included.
C7_PeekThenEvictAgree ==
    [][EvictAgreesWithPeek]_vars

\* LRU-K: a frame is excluded by the ref_period guard at timestamp t1 and no
\* longer at timestamp t2.
GuardEndsBetween(t1, t2) ==
    /\ which = "lruk"
    /\ config.ref_period > 0
    /\ \E id \in Evictable :
          /\ t1 - framed_pages[id].last_ref <= config.ref_period
          /\ t2 - framed_pages[id].last_ref > config.ref_period

\* C7 (amended): peek() followed immediately by evict() select the same
\* result for LruReplacer, and for LruKReplacer unless the ref_period guard of
\* some evictable frame ends between the two evaluation timestamps (which
\* cannot happen with ref_period = 0).
C7_PeekThenEvictAgreeUnlessGuardEnds ==
    [][~GuardEndsBetween(hlc, hlc') => EvictAgreesWithPeek]_vars

\* C7 witness: an LRU-K evict() with ref_period > 0 returned the frame the
\* immediately preceding peek() had returned.
C7_Witness ==
    /\ which = "lruk" /\ config.ref_period > 0
    /\ last.op = "evict" /\ last.res = "Some" /\ last.prev = last.id

\* size() and capacity() of the replacer under test.
SizeNow == IF which = "lru" THEN LruSize ELSE LruKSize
CapacityNow == IF which = "lru" THEN LruCapacity ELSE LruKCapacity

\* C8 (as stated): touch(id) on a frame that is already tracked returns Ok,
\* updates the frame's access record in place and leaves size() unchanged,
\* also when the replacer holds capacity() frames.
C8_TouchOfTrackedFrameSucceeds ==
    [][(last'.op = "touch" /\ last'.known) =>
          /\ last'.res = "Ok"
          /\ SizeNow' = SizeNow
          /\ which = "lru" => recency'[Len(recency')] = last'.id
          /\ which = "lruk" => framed_pages'[last'.id].last_ref = hlc']_vars

\* C9: touch(id) (LruReplacer: also unpin(id)) on a frame that is not tracked,
\* when size() equals capacity(), returns FrameReplacerFull and changes
\* nothing: size, the tracked frames, their pin state and access records.
C9_FullRejectsNewFrame ==
    [][(/\ last'.op = "touch" \/ (which = "lru" /\ last'.op = "unpin")
        /\ ~last'.known
        /\ SizeNow = CapacityNow) =>
          /\ last'.res = "FrameReplacerFull"
          /\ UNCHANGED <<frames, val, size, framed_pages, hlc>>]_vars

\* C9 witness: an LRU-K touch of a new frame was rejected with size() equal
\* to capacity().
C9_Witness ==
    /\ which = "lruk"
    /\ last.op = "touch" /\ last.res = "FrameReplacerFull"
    /\ last.id \notin Tracked
    /\ LruKSize = LruKCapacity

\* C10 (as stated): for both replacers, unpin(id) on a frame that is not
\* tracked, while size() is below capacity(), returns Ok and makes id tracked
\* and evictable with size() increased by one.
C10_UnpinInsertsNewFrame ==
    [][(last'.op = "unpin" /\ ~last'.known /\ SizeNow < CapacityNow) =>
          /\ last'.res = "Ok"
          /\ SizeNow' = SizeNow + 1
          /\ which = "lru" => last'.id \in LruIds'
          /\ which = "lruk" => last'.id \in Evictable']_vars

\* C10 (amended): LruReplacer: unpin(id) on a frame that is not tracked, while
\* size() is below capacity(), returns Ok and inserts id with the next token,
\* size() increased by one, as an initial touch(id) does.  LruKReplacer:
\* unpin(id) on a frame that is not tracked returns InvalidFrameId(id) and
\* changes nothing; only touch(id) inserts a frame.
C10_UnpinInsertsNewFrameInLruOnly ==
    [][(last'.op = "unpin" /\ ~last'.known) =>
          /\ (which = "lru" /\ SizeNow < CapacityNow) =>
                /\ last'.res = "Ok"
                /\ SizeNow' = SizeNow + 1
                /\ frames' = frames \cup {[id |-> last'.id, priority |-> val]}
                /\ recency' = Append(recency, last'.id)
          /\ which = "lruk" =>
                /\ last'.res = "InvalidFrameId"
                /\ UNCHANGED <<size, framed_pages, hlc>>]_vars

\* C10 witness: an LRU unpin() inserted a frame that was not in the queue,
\* behind a frame already there.
C10_Witness ==
    /\ which = "lru"
    /\ last.op = "unpin" /\ last.res = "Ok" /\ ~last.known
    /\ Len(recency) = 2 /\ recency[2] = last.id

\* The frame's pin state as the caller holds it, and its access record.
Pinned(id) == pins[id] = "pinned"
Record(id) ==
    IF which = "lru" THEN LruGet(id)
    ELSE IF id \in Tracked THEN {framed_pages[id]} ELSE {}
InReplacer(id) == IF which = "lru" THEN id \in LruIds ELSE id \in Evictable

\* C11 (as stated): for both replacers, remove(id) on a pinned frame returns
\* PinnedFrameRemoval and leaves size() and the frame's record unchanged;
\* remove(id) on an evictable frame returns Ok, decreases size() by exactly
\* one, and leaves id out of the frames evict() and peek() choose from.
C11_RemovePinnedFailsEvictableSucceeds ==
    [][\A id \in Frames :
          (last'.op = "remove" /\ last'.id = id) =>
             /\ Pinned(id) =>
                   /\ last'.res = "PinnedFrameRemoval"
                   /\ SizeNow' = SizeNow
                   /\ Record(id)' = Record(id)
             /\ (~Pinned(id) /\ InReplacer(id)) =>
                   /\ last'.res = "Ok"
                   /\ SizeNow' = SizeNow - 1
                   /\ Record(id)' = {}]_vars

\* C12 (as stated): on an LruKReplacer, pin(id) and remove(id) for an id the
\* replacer has no record of both return InvalidFrameId and change no state.
C12_UntrackedPinAndRemoveAreInvalid ==
    [][(which = "lruk" /\ last'.op \in {"pin", "remove"} /\ ~last'.known) =>
          /\ last'.res = "InvalidFrameId"
          /\ UNCHANGED <<size, framed_pages, hlc>>]_vars

\* C13: for both replacers, a second consecutive pin(id), or a second
\* consecutive unpin(id), on a tracked frame returns Ok and leaves size(), the
\* pin state and the eviction order unchanged; a pin or unpin that changes
\* whether the frame is evictable changes size() by exactly one, and one
\* that does not leaves size() as it is.
C13_PinUnpinIdempotent ==
    [][\A id \in Frames :
          (last'.op \in {"pin", "unpin"} /\ last'.id = id) =>
             /\ last'.again =>
                   /\ last'.res = "Ok"
                   /\ SizeNow' = SizeNow
                   /\ UNCHANGED <<pins, frames, recency, framed_pages>>
             /\ (InReplacer(id) /\ ~InReplacer(id)') => SizeNow' = SizeNow - 1
             /\ (~InReplacer(id) /\ InReplacer(id)') => SizeNow' = SizeNow + 1
             /\ (InReplacer(id) <=> InReplacer(id)') => SizeNow' = SizeNow]_vars

\* C13 witness: a pin() of a tracked LRU-K frame, with other frames still
\* evictable, directly followed a pin() of the same frame and returned Ok.
C13_Witness ==
    /\ which = "lruk"
    /\ last.op = "pin" /\ last.again /\ last.res = "Ok"
    /\ last.id \in Tracked
    /\ Evictable # {}

\* C14: for both replacers, with calls that do not overlap, an evict() call
\* either returns none and leaves size() and all tracked frames unchanged, or
\* returns a frame that was tracked and evictable, removes that frame's record
\* entirely and decreases size() by exactly one, leaving all other frames
\* unchanged.
C14_EvictRemovesExactlyTheVictim ==
    [][last'.op = "evict" =>
          \/ /\ last'.res = "None"
             /\ SizeNow' = SizeNow
             /\ UNCHANGED <<frames, framed_pages, pins>>
          \/ /\ last'.res = "Some"
             /\ SizeNow' = SizeNow - 1
             /\ UNCHANGED pins
             /\ \E v \in Frames :
                   /\ v = last'.id
                   /\ InReplacer(v)
                   /\ Record(v)' = {}
                   /\ \A o \in Frames \ {v} : Record(o)' = Record(o)]_vars

\* C14 witness: an LRU-K evict() returned a frame while another frame stayed
\* tracked.
C14_Witness ==
    /\ which = "lruk"
    /\ last.op = "evict" /\ last.res = "Some"
    /\ Tracked # {}
    /\ last.id \notin Tracked

\* C15: for both replacers, peek() leaves the replacer state unchanged:
\* size(), the set of tracked frames, each frame's pin state and each frame's
\* access record (LRU token; LRU-K history and last access) are the same
\* after the call as before, whether it returns a frame or none.  (The LRU-K
\* timestamp generator does advance: peek() draws a timestamp.)
C15_PeekChangesNothing ==
    [][last'.op = "peek" =>
          /\ SizeNow' = SizeNow
          /\ UNCHANGED <<frames, size, framed_pages, pins>>]_vars

\* C15 witness: an LRU-K peek() returned a frame of a replacer that tracks a
\* pinned frame as well.
C15_Witness ==
    /\ which = "lruk"
    /\ last.op = "peek" /\ last.res = "Some"
    /\ last.id \in Evictable
    /\ Tracked \ Evictable # {}

\* The number of uncorrelated history entries the frame holds.
HistoryLen(id) == Len(framed_pages[id].refs)

\* C16: LruKReplacer: whenever peek()/evict() is evaluated while an
\* evictable, eligible frame A has fewer than K history entries and an
\* evictable, eligible frame B has K entries, B is not the frame selected.
C16_ShortHistoryEvictedFirst ==
    [][(which = "lruk" /\ last'.op \in {"peek", "evict"}) =>
          \A A, B \in Candidates(hlc') :
             (HistoryLen(A) < config.k /\ HistoryLen(B) = config.k) =>
                last'.id # B]_vars

\* C16 witness: a peek() chose a frame with fewer than K history entries
\* while a frame with K entries, touched earlier, was eligible too.
C16_Witness ==
    /\ which = "lruk"
    /\ last.op = "peek" /\ last.res = "Some"
    /\ HistoryLen(last.id) < config.k
    /\ \E B \in Candidates(last.ts) :
          /\ HistoryLen(B) = config.k
          /\ framed_pages[B].last_ref < framed_pages[last.id].last_ref

\* The frame was accessed within ref_period of the timestamp t.
Guarded(id, t) ==
    config.ref_period > 0 /\ t - framed_pages[id].last_ref <= config.ref_period

\* C17: LruKReplacer with ref_period > 0: a peek()/evict() evaluated at
\* timestamp T never returns a frame with T - last_access <= ref_period, even
\* if it is the only evictable frame; once T - last_access > ref_period the
\* frame is eligible again (an only evictable frame is then returned); with
\* ref_period = 0 no frame is excluded by the guard.
C17_GuardPeriodExcludesFrame ==
    [][(which = "lruk" /\ last'.op \in {"peek", "evict"}) =>
          /\ \A id \in Tracked : Guarded(id, hlc') => last'.id # id
          /\ \A id \in Evictable :
                (Evictable = {id} /\ ~Guarded(id, hlc')) => last'.id = id
          /\ (config.ref_period = 0 /\ Evictable # {}) => last'.res = "Some"]_vars

\* C17 witness: a peek() with ref_period > 0 returned none although a frame
\* was evictable, because the frame had been accessed within ref_period.
C17_Witness ==
    /\ which = "lruk" /\ config.ref_period > 0
    /\ last.op = "peek" /\ last.res = "None"
    /\ \E id \in Evictable : Guarded(id, last.ts)

\* C18: LruKReplacer: a touch at timestamp T of a tracked frame adds a new
\* history entry (the newest, the history holding at most K) exactly when
\* ref_period = 0 or T - last_access > ref_period; a touch with
\* T - last_access <= ref_period (ref_period > 0) adds no history entry; in
\* both cases last_access becomes T.
C18_CorrelatedTouchAddsNoEntry ==
    [][\A id \in Frames :
          (/\ which = "lruk"
           /\ last'.op = "touch" /\ last'.id = id /\ last'.known) =>
             /\ last'.res = "Ok"
             /\ framed_pages'[id].last_ref = hlc'
             /\ IF Guarded(id, hlc')
                THEN framed_pages'[id].refs = framed_pages[id].refs
                ELSE /\ HistoryLen(id)' = Min(HistoryLen(id) + 1, config.k)
                     /\ framed_pages'[id].refs[HistoryLen(id)'] = hlc']_vars

\* C18 witness: with ref_period > 0 and K = 2, a touch of a tracked frame
\* within ref_period of its last access left its single history entry alone.
C18_Witness ==
    /\ which = "lruk" /\ config.ref_period > 0 /\ config.k = 2
    /\ last.op = "touch" /\ last.res = "Ok" /\ last.known
    /\ framed_pages[last.id].last_ref = last.ts
    /\ framed_pages[last.id].refs = <<last.ts - 1>>

\* The next() call at position i of the history returned before the call at
\* position j began.
Earlier(i, j) == i <= history[j].at

\* C19: UniqueSequence::next reports exhaustion instead of wrapping: over any
\* sequence of calls, also after the counter has reached i64::MAX, no call
\* returns a value less than or equal to a value an earlier call returned,
\* and once a call has returned None every later call returns None.
C19_ExhaustedSequenceStaysExhausted ==
    \A j \in 1..Len(history) : \A i \in 1..Len(history) :
        Earlier(i, j) =>
            /\ ~history[i].res.some => ~history[j].res.some
            /\ (history[i].res.some /\ history[j].res.some) =>
                   history[i].res.val < history[j].res.val

\* Some next() call has seen the counter at i64::MAX.
Exhausted ==
    \/ \E i \in 1..Len(history) : ~history[i].res.some
    \/ \E t \in Threads : fetched[t].busy /\ NextIsNone(fetched[t].val)

\* The run began at UniqueSequence::new (counter 0) and not at the other
\* start, which is within MaxCalls of i64::MAX.
FromNew == val \in 0..MaxCalls

\* The values fetch_add has handed out: to calls that returned and to calls
\* still inside next().
Issued ==
    {history[i].res.val : i \in {j \in 1..Len(history) : history[j].res.some}}
        \cup {fetched[t].val : t \in {u \in Threads : fetched[u].busy}}

\* C20: UniqueSequence with callers on several threads, before exhaustion:
\* no two next() calls return the same value; the values one caller observes
\* are strictly increasing; and after n calls in total the counter is n, the
\* values issued being exactly 0..n-1, so the next value returned is n.
C20_ConcurrentCallersGetDistinctIncreasingValues ==
    /\ ~Exhausted =>
          \A i \in 1..Len(history) : \A j \in 1..Len(history) :
              /\ i # j => history[i].res # history[j].res
              /\ (i < j /\ history[i].t = history[j].t) =>
                     history[i].res.val < history[j].res.val
    /\ FromNew =>
          /\ val = Begun
          /\ Issued = 0..(Begun - 1)
          /\ \A t \in Threads : fetched[t].busy => fetched[t].val >= fetched[t].at

\* C20 witness: MaxCalls calls from two threads have returned on a sequence
\* begun at new(), two of them in the reverse of the order in which they
\* fetched, and the counter stands at MaxCalls.
C20_Witness ==
    /\ which = "seq" /\ FromNew /\ ~Exhausted
    /\ Len(history) = MaxCalls /\ val = MaxCalls
    /\ \A t \in Threads : ~fetched[t].busy
    /\ \E i \in 1..Len(history) : \E j \in 1..Len(history) :
          /\ i < j /\ history[i].t # history[j].t
          /\ history[i].res.val > history[j].res.val

\* C23: LruKReplacer: in every reachable state the number of tracked frames,
\* pinned and evictable together, is at most the configured capacity; a touch
\* of a new frame is rejected with FrameReplacerFull whenever capacity frames
\* are tracked already, also when some of them are pinned.
C23_TrackedWithinCapacity ==
    which = "lruk" =>
        /\ Cardinality(Tracked) <= config.capacity
        /\ (/\ last.op = "touch" /\ last.res = "Ok" /\ ~last.known) =>
               Cardinality(Tracked \ {last.id}) < config.capacity

\* C24: LruKReplacer: in every reachable state each tracked frame's history
\* is strictly increasing from its oldest entry to its most recent one and
\* holds no value twice, its entries being the tokens of the frame's
\* uncorrelated touches in the order of those touches.  Tokens increase
\* strictly, so a history of tokens in touch order is strictly increasing:
\* that is what is stated here.
C24_HistoryStrictlyIncreasing ==
    which = "lruk" =>
        \A id \in Tracked :
            \A i \in 1..HistoryLen(id) : \A j \in 1..HistoryLen(id) :
                i < j => framed_pages[id].refs[i] < framed_pages[id].refs[j]

\* The most recent access the frame's history records.
RecordedAccess(id) == framed_pages[id].refs[HistoryLen(id)]

\* C25: LruKReplacer: whenever peek()/evict() is evaluated while every
\* evictable, eligible frame has fewer than K history entries, the frame
\* selected is the one whose recorded access is the oldest, so that
\* successive evictions return such frames in the order of their accesses.
C25_ShortHistoriesEvictedOldestFirst ==
    [][(/\ which = "lruk" /\ last'.op \in {"peek", "evict"}
        /\ Candidates(hlc') # {}
        /\ \A c \in Candidates(hlc') : HistoryLen(c) < config.k) =>
          /\ last'.res = "Some"
          /\ \E v \in Candidates(hlc') :
                /\ last'.id = v
                /\ \A c \in Candidates(hlc') :
                      RecordedAccess(v) <= RecordedAccess(c)]_vars

\* C25 witness: a peek() chose among two or more eligible frames, all with
\* fewer than K history entries, and returned the one accessed first.
C25_Witness ==
    /\ which = "lruk"
    /\ last.op = "peek" /\ last.res = "Some"
    /\ \A c \in Candidates(last.ts) : HistoryLen(c) < config.k
    /\ \E c \in Candidates(last.ts) :
          RecordedAccess(last.id) < RecordedAccess(c)

KthAccess(id) == accesses[id][Len(accesses[id]) - config.k + 1]

\* C22: LruKReplacer: whenever peek()/evict() is evaluated at timestamp T
\* while every evictable, eligible frame has K history entries, the frame
\* selected is one with the maximum T - H.oldest, H.oldest being the token of
\* the frame's K-th most recent uncorrelated access: the frame whose K-th
\* most recent access is the oldest.
C22_OldestKthAccessEvictedFirst ==
    [][(/\ which = "lruk" /\ traced /\ last'.op \in {"peek", "evict"}
        /\ Candidates(hlc') # {}
        /\ \A c \in Candidates(hlc') : HistoryLen(c) = config.k) =>
          /\ last'.res = "Some"
          /\ \E v \in Candidates(hlc') :
                /\ last'.id = v
                /\ \A c \in Candidates(hlc') :
                      hlc' - KthAccess(v) >= hlc' - KthAccess(c)]_vars

\* The unpin() calls that have returned.
Unpinned == UNION {{UnpinId(t, n - 1) : n \in 1..Len(results[t])} : t \in Threads}

\* C21: N threads that each call unpin on K frame ids of their own, on one
\* shared LruReplacer of capacity N*K: in every interleaving every call
\* returns Ok, the queue holds exactly the frames whose unpin() has
\* returned, each once, and once all calls have returned size() is N*K.
C21_ConcurrentUnpinsAllLand ==
    (which = "lru" /\ capacity = NumThreads * UnpinsPerThread) =>
        /\ \A t \in Threads : \A n \in 1..Len(results[t]) : results[t][n] = "Ok"
        /\ LruIds = Unpinned
        /\ LruSize = Cardinality(Unpinned)
        /\ \A id \in LruIds : Cardinality(LruGet(id)) = 1
        /\ (\A t \in Threads : Len(results[t]) = UnpinsPerThread) =>
               /\ LruSize = NumThreads * UnpinsPerThread
               /\ LruIds = UnpinIds

\* C21 witness: all calls have returned, and the threads took turns (the
\* frames of one thread are not next to each other in the queue's order).
C21_Witness ==
    /\ which = "lru" /\ capacity = NumThreads * UnpinsPerThread
    /\ \A t \in Threads : Len(results[t]) = UnpinsPerThread /\ pc[t] = "idle"
    /\ LruSize = NumThreads * UnpinsPerThread
    /\ \E f, g, h \in frames :
          /\ f.priority < g.priority /\ g.priority < h.priority
          /\ f.id = UnpinId(1, 0) /\ h.id = UnpinId(1, 1) /\ g.id = UnpinId(2, 0)

\* Thread t holds a guard of the lock.
Holds(t) == rw.writer = t \/ t \in rw.readers

\* C27: no deadlock: with the methods of one shared replacer called from
\* several threads, a finite number of calls each, under fair scheduling
\* every call returns, and no thread waits for the lock while it holds a
\* guard of it itself (LruKReplacer::evict has dropped the read guard of
\* peek() when it asks for the write lock).
C27_EveryCallReturns ==
    /\ [](\A t \in Threads : pc[t] \in {"read", "write"} => ~Holds(t))
    /\ \A t \in Threads : (pc[t] # "idle") ~> (pc[t] = "idle")

\* C27 witness: an evict() of LruKReplacer has been through the read lock
\* and holds the write lock, while another thread waits for the lock.
C27_Witness ==
    /\ which = "lruk"
    /\ \E t, u \in Threads :
          /\ call[t].op = "evict" /\ pc[t] = "writing" /\ rw.writer = t
          /\ pc[u] \in {"read", "write"}

====
